---- MODULE Spec2Model ----
(***************************************************************************)
(* swayspace (src/src/main.rs): one invocation parses its arguments,       *)
(* connects to the compositor, builds a WindowManagerState snapshot from   *)
(* three queries, picks one destination workspace number and issues one or *)
(* two compositor commands.                                                *)
(***************************************************************************)
EXTENDS Integers, Sequences, FiniteSets, TLC

VARIABLES pc, opt, focused_output_name, outputs, wm_state, destination,
          commands, outcomes, snapshots, picks

vars == <<pc, opt, focused_output_name, outputs, wm_state, destination,
          commands, outcomes, snapshots, picks>>

\* ---------------------------------------------------------------- bounds

\* Largest workspace number the compositor reports.
MaxNum == 3

\* Largest number of workspaces in one get_workspaces reply.
MaxWs == 3

\* Workspace numbers the compositor may report: sway gives -1 to a workspace
\* whose name has no number, and 0 is a valid number. The numbers stay far
\* from i32::MAX, where the max + 1 of make_new_workspace_at_end overflows.
Nums == (0 - 1)..MaxNum

\* The output names of the compositor, in the order String's Ord gives them.
OutputNames == <<"DP-1", "HDMI-A-1">>

\* The corners <<x, y>> an output's rect can have; two outputs that mirror
\* each other share one.
Positions == {<<0, 1>>, <<1, 0>>}

\* ------------------------------------------------------- pure helpers

Range(s) == {s[i] : i \in 1..Len(s)}

Reverse(s) == [i \in 1..Len(s) |-> s[Len(s) + 1 - i]]

MaxOf(S) == CHOOSE m \in S : \A n \in S : n <= m

MinOf(S) == CHOOSE m \in S : \A n \in S : m <= n

\* Mutant of SortInts: the list is left in the order of the reply.
Unsorted(s) == s

\* Vec::sort_unstable on i32: the ascending sequence of the elements of s
\* (insertion of each element in turn, duplicates kept).
RECURSIVE Insert(_, _)
Insert(x, s) ==
    IF s = <<>> THEN <<x>>
    ELSE IF x <= Head(s) THEN <<x>> \o s
    ELSE <<Head(s)>> \o Insert(x, Tail(s))

RECURSIVE SortInts(_)
SortInts(s) == IF s = <<>> THEN <<>> ELSE Insert(Head(s), SortInts(Tail(s)))

\* Option<i32> as returned by cycle_through, plus the outcome of a search
\* that never ends.
Some(n) == [kind |-> "Some", val |-> n]
None == [kind |-> "None", val |-> 0]
Diverges == [kind |-> "Diverges", val |-> 0]

\* ------------------------------------------------------------- Output

NameRank(name) == CHOOSE i \in 1..Len(OutputNames) : OutputNames[i] = name

\* #[derive(Ord)] on Output: x_pos, then y_pos, then name.
OutputLess(a, b) ==
    \/ a.x_pos < b.x_pos
    \/ a.x_pos = b.x_pos /\ a.y_pos < b.y_pos
    \/ a.x_pos = b.x_pos /\ a.y_pos = b.y_pos /\ NameRank(a.name) < NameRank(b.name)

RECURSIVE InsertOutput(_, _)
InsertOutput(o, s) ==
    IF s = <<>> THEN <<o>>
    ELSE IF OutputLess(o, Head(s)) THEN <<o>> \o s
    ELSE <<Head(s)>> \o InsertOutput(o, Tail(s))

RECURSIVE SortOutputs(_)
SortOutputs(s) ==
    IF s = <<>> THEN <<>> ELSE InsertOutput(Head(s), SortOutputs(Tail(s)))

\* get_outputs replies: every output of the compositor with its rect.
OutputReplies ==
    {[i \in 1..Len(OutputNames) |->
        [x_pos |-> p[i][1], y_pos |-> p[i][2], name |-> OutputNames[i]]] :
     p \in [1..Len(OutputNames) -> Positions]}

\* ------------------------------------------------- compositor replies

\* The ascending sequence of a set of numbers.
RECURSIVE SeqOfSet(_)
SeqOfSet(S) ==
    IF S = {} THEN <<>> ELSE <<MinOf(S)>> \o SeqOfSet(S \ {MinOf(S)})

\* The order sway lists the workspaces of one output in: the numbered ones
\* ascending, then the one without a number (num -1).
OutputOrder(S) ==
    SeqOfSet({n \in S : n >= 0}) \o SeqOfSet({n \in S : n < 0})

\* The order of a get_workspaces reply: output by output.
RECURSIVE ReplyOrder(_, _, _)
ReplyOrder(S, out, names) ==
    IF names = <<>> THEN <<>>
    ELSE OutputOrder({n \in S : out[n] = Head(names)})
             \o ReplyOrder(S, out, Tail(names))

\* One get_workspaces reply: the workspaces S (numbers are unique in one
\* compositor), out[n] the output owning n, foc the focused one, vis the
\* visible ones, empty those without windows (representation "").
WorkspacesReply(S, out, foc, vis, empty) ==
    LET order == ReplyOrder(S, out, OutputNames)
    IN [i \in 1..Len(order) |->
          [num |-> order[i],
           output |-> out[order[i]],
           focused |-> order[i] = foc,
           visible |-> order[i] \in vis,
           representation |-> IF order[i] \in empty THEN "" ELSE "H[term]"]]

\* What the compositor guarantees of a reply: the focused workspace is
\* visible, and every output that owns workspaces shows exactly one of them.
CompositorContract(S, out, foc, vis) ==
    /\ foc \in vis
    /\ vis \subseteq S
    /\ \A n \in S : Cardinality({v \in vis : out[v] = out[n]}) = 1

\* ------------------------------------------ WindowManagerState::from_wm

\* Lines 103-115: for each output in sorted order, the num of the first
\* visible workspace on it; outputs with none are skipped.
RECURSIVE VisibleWorkspacePerOutput(_, _)
VisibleWorkspacePerOutput(outs, visible_workspaces) ==
    IF outs = <<>> THEN <<>>
    ELSE LET found == SelectSeq(visible_workspaces,
                                LAMBDA w : w.output = Head(outs).name)
             rest == VisibleWorkspacePerOutput(Tail(outs), visible_workspaces)
         IN IF found = <<>> THEN rest ELSE <<Head(found).num>> \o rest

NumsOf(ws) == [i \in 1..Len(ws) |-> ws[i].num]

\* Lines 117-143, given the focused output's name, the sorted outputs and
\* the get_workspaces reply. The result is <<state>>, or <<>> where one of
\* the unwrap() calls panics.
from_wm(name, outs, all_workspaces) ==
    LET visible_workspaces == SelectSeq(all_workspaces, LAMBDA w : w.visible)
        focused == SelectSeq(all_workspaces, LAMBDA w : w.focused)
        on_focused == SelectSeq(all_workspaces, LAMBDA w : w.output = name)
        elsewhere == SelectSeq(all_workspaces, LAMBDA w : w.output # name)
        partitioned == on_focused \o elsewhere
        workspaces_on_focused_output == SortInts(NumsOf(on_focused))
    IN IF focused = <<>> \/ workspaces_on_focused_output = <<>> THEN <<>>
       ELSE LET max == MaxOf(Range(workspaces_on_focused_output))
                max_workspace == Head(SelectSeq(partitioned, LAMBDA w : w.num = max))
            IN << [current_workspace |-> Head(focused).num,
                   workspaces_on_focused_output |-> workspaces_on_focused_output,
                   workspaces_on_unfocused_outputs |-> NumsOf(elsewhere),
                   max_workspace_on_focused_output |-> max,
                   is_max_workspace_empty |-> max_workspace.representation = "",
                   visible_workspace_per_output |->
                       VisibleWorkspacePerOutput(outs, visible_workspaces)] >>

\* ---------------------------------------------------- navigation engine

Contains(vec, n) == \E i \in 1..Len(vec) : vec[i] = n

\* Lines 148-150: the while loop stepping index over the numbers found on
\* unfocused outputs.
RECURSIVE SkipReserved(_, _)
SkipReserved(reserved, index) ==
    IF Contains(reserved, index) THEN SkipReserved(reserved, index + 1) ELSE index

\* Mutant of make_new_workspace_at_end: the while loop is missing.
make_new_workspace_at_end_unchecked(self) ==
    self.max_workspace_on_focused_output + 1

make_new_workspace_at_end(self) ==
    SkipReserved(self.workspaces_on_unfocused_outputs,
                 self.max_workspace_on_focused_output + 1)

\* Mutant of make_new_workspace_at_start: the range is searched from its
\* lower end (the rev() is missing).
make_new_workspace_at_start_lowest(self) ==
    LET free == {num \in 1..(self.current_workspace - 1) :
                    ~Contains(self.workspaces_on_unfocused_outputs, num)}
    IN IF free = {} THEN self.current_workspace ELSE MinOf(free)

\* (1..current).rev().find(..).unwrap_or(current): the range excludes
\* current_workspace and is searched from its upper end.
make_new_workspace_at_start(self) ==
    LET free == {num \in 1..(self.current_workspace - 1) :
                    ~Contains(self.workspaces_on_unfocused_outputs, num)}
    IN IF free = {} THEN self.current_workspace ELSE MaxOf(free)

\* Mutant of ChainAtEnd: static_behaviour is not consulted.
ChainAtEndIgnoringStatic(self, static_behaviour) ==
    IF self.is_max_workspace_empty /\ Len(self.workspaces_on_focused_output) > 1
    THEN <<>>
    ELSE <<make_new_workspace_at_end(self)>>

\* Mutant of ChainAtEnd: the emptiness of the maximum is not consulted.
ChainAtEndIgnoringEmptiness(self, static_behaviour) ==
    IF static_behaviour
    THEN <<>>
    ELSE <<make_new_workspace_at_end(self)>>

\* Lines 175-184: the trailing slot chained after the candidates.
ChainAtEnd(self, static_behaviour) ==
    IF \/ static_behaviour
       \/ (self.is_max_workspace_empty /\ Len(self.workspaces_on_focused_output) > 1)
    THEN <<>>
    ELSE <<make_new_workspace_at_end(self)>>

\* Lines 185-194: the leading slot chained last.
ChainAtStart(self, static_behaviour) ==
    IF \/ static_behaviour
       \/ ~(self.is_max_workspace_empty /\ Len(self.workspaces_on_focused_output) = 1)
    THEN <<>>
    ELSE <<make_new_workspace_at_start(self)>>

\* iter.cycle().skip_while(|w| w != current).skip(1).next(): None on an
\* empty iterator, no return when current never shows up in the cycle,
\* otherwise the element after the first occurrence of current, cyclically.
CycleSkipNext(items, current) ==
    IF items = <<>> THEN None
    ELSE IF ~Contains(items, current) THEN Diverges
    ELSE LET first == CHOOSE i \in 1..Len(items) :
                          /\ items[i] = current
                          /\ \A j \in 1..(i - 1) : items[j] # current
         IN Some(items[(first % Len(items)) + 1])

cycle_through(self, workspaces, dir, static_behaviour) ==
    LET iter == workspaces \o ChainAtEnd(self, static_behaviour)
                           \o ChainAtStart(self, static_behaviour)
    IN IF dir = "Next"
       THEN CycleSkipNext(iter, self.current_workspace)
       ELSE CycleSkipNext(Reverse(iter), self.current_workspace)

\* Lines 218-221: (1..=max).filter(not on an unfocused output).
GapRange(self) ==
    SeqOfSet({w \in 1..self.max_workspace_on_focused_output :
                 ~Contains(self.workspaces_on_unfocused_outputs, w)})

\* The Option before the unwrap() of lines 225 and 232.
cycle_through_workspaces_on_focused_output(self, walk_into_gaps, dir, static_behaviour) ==
    IF walk_into_gaps
    THEN cycle_through(self, GapRange(self), dir, static_behaviour)
    ELSE cycle_through(self, self.workspaces_on_focused_output, dir, static_behaviour)

\* Mutant of cycle_through_outputs: static_behaviour is passed as false.
cycle_through_outputs_dynamic(self, dir) ==
    cycle_through(self, self.visible_workspace_per_output, dir, FALSE)

\* The Option before the unwrap() of line 237.
cycle_through_outputs(self, dir) ==
    cycle_through(self, self.visible_workspace_per_output, dir, TRUE)

pick_destination(wm, o) ==
    IF o.to = "Workspace"
    THEN cycle_through_workspaces_on_focused_output(
             wm, o.walk_into_gaps, o.dir, o.static_behaviour)
    ELSE cycle_through_outputs(wm, o.dir)

\* format!("workspace number {}", destination)
WorkspaceNumber(n) == "workspace number " \o ToString(n)

\* format!("move container to workspace number {}", destination)
MoveContainerToWorkspaceNumber(n) ==
    "move container to workspace number " \o ToString(n)

\* ------------------------------------------------------------ the program

\* Values of the variables before the code has assigned them.
UnsetOpt ==
    [command |-> "", to |-> "", dir |-> "",
     walk_into_gaps |-> FALSE, static_behaviour |-> FALSE]

UnsetState ==
    [current_workspace |-> 0,
     workspaces_on_focused_output |-> <<>>,
     workspaces_on_unfocused_outputs |-> <<>>,
     max_workspace_on_focused_output |-> 0,
     is_max_workspace_empty |-> FALSE,
     visible_workspace_per_output |-> <<>>]

Init ==
    /\ pc = "start"
    /\ opt = UnsetOpt
    /\ focused_output_name = ""
    /\ outputs = <<>>
    /\ wm_state = UnsetState
    /\ destination = None
    /\ commands = <<>>
    /\ outcomes = <<>>
    /\ snapshots = 0
    /\ picks = 0

\* impl FromStr for Do (lines 30-42).
DoFromStr(s) ==
    IF s = "move-focus-to" THEN <<"MoveFocusTo">>
    ELSE IF s = "move-container-to" THEN <<"MoveContainerTo">>
    ELSE <<>>

\* Opt::from_args() (line 254): an unparsable command ends the process
\* before anything else happens.
ParseArgs ==
    /\ pc = "start"
    /\ \E s \in {"move-focus-to", "move-container-to", "move-window-to"},
          to \in {"Workspace", "Output"}, dir \in {"Prev", "Next"},
          walk_into_gaps \in BOOLEAN, static_behaviour \in BOOLEAN :
          IF DoFromStr(s) = <<>>
          THEN pc' = "exited" /\ opt' = opt
          ELSE /\ pc' = "parsed"
               /\ opt' = [command |-> DoFromStr(s)[1], to |-> to, dir |-> dir,
                          walk_into_gaps |-> walk_into_gaps,
                          static_behaviour |-> static_behaviour]
    /\ UNCHANGED <<focused_output_name, outputs, wm_state, destination,
                   commands, outcomes, snapshots, picks>>

\* swayipc::Connection::new().unwrap() (line 255).
Connect ==
    /\ pc = "parsed"
    /\ \E ok \in BOOLEAN : pc' = IF ok THEN "connected" ELSE "panicked"
    /\ UNCHANGED <<opt, focused_output_name, outputs, wm_state, destination,
                   commands, outcomes, snapshots, picks>>

\* from_wm, lines 78-87: get_tree and the name of the focused output; the
\* unwrap() calls panic when the query fails or no output is focused.
GetTree ==
    /\ pc = "connected"
    /\ \E reply \in Range(OutputNames) \cup {"Err", "NoFocusedOutput"} :
          IF reply \in Range(OutputNames)
          THEN pc' = "tree" /\ focused_output_name' = reply
          ELSE pc' = "panicked" /\ focused_output_name' = focused_output_name
    /\ UNCHANGED <<opt, outputs, wm_state, destination,
                   commands, outcomes, snapshots, picks>>

\* from_wm, lines 89-100: get_outputs, then outputs.sort().
GetOutputs ==
    /\ pc = "tree"
    /\ \/ \E reply \in OutputReplies :
             pc' = "outputs" /\ outputs' = SortOutputs(reply)
       \/ pc' = "panicked" /\ outputs' = outputs
    /\ UNCHANGED <<opt, focused_output_name, wm_state, destination,
                   commands, outcomes, snapshots, picks>>

\* from_wm, lines 102-144: get_workspaces and the rest of the constructor;
\* its locals are dropped on return.
GetWorkspaces ==
    /\ pc = "outputs"
    /\ \/ \E S \in SUBSET Nums :
             /\ Cardinality(S) \in 1..MaxWs
             /\ \E foc \in S, out \in [S -> Range(OutputNames)] :
                   /\ out[foc] = focused_output_name
                   /\ \E vis \in SUBSET S :
                         /\ CompositorContract(S, out, foc, vis)
                         /\ \E empty \in SUBSET S :
                               \E built \in {from_wm(focused_output_name, outputs,
                                       WorkspacesReply(S, out, foc, vis, empty))} :
                                  IF built = <<>>
                                  THEN /\ pc' = "panicked"
                                       /\ UNCHANGED <<wm_state, snapshots>>
                                  ELSE /\ pc' = "snapshot"
                                       /\ wm_state' = built[1]
                                       /\ snapshots' = snapshots + 1
       \/ pc' = "panicked" /\ UNCHANGED <<wm_state, snapshots>>
    /\ focused_output_name' = ""
    /\ outputs' = <<>>
    /\ UNCHANGED <<opt, destination, commands, outcomes, picks>>

\* pick_destination(&wm_state, &opt) of lines 259 and 264 with the unwrap()
\* of the chosen axis: a None panics, and a search that does not end keeps
\* the process in the call.
PickDestination ==
    /\ pc = "snapshot"
    /\ destination' = pick_destination(wm_state, opt)
    /\ pc' = CASE destination'.kind = "Some" -> "picked"
               [] destination'.kind = "None" -> "panicked"
               [] OTHER -> "diverged"
    /\ picks' = picks + 1
    /\ UNCHANGED <<opt, focused_output_name, outputs, wm_state,
                   commands, outcomes, snapshots>>

\* Mutant of RunCommand: the result is not unwrapped.
RunCommandUnchecked(text, then) ==
    /\ commands' = Append(commands, text)
    /\ \E reply \in {"Ok", "Err"} : outcomes' = Append(outcomes, reply)
    /\ pc' = then
    /\ UNCHANGED <<opt, focused_output_name, outputs, wm_state, destination,
                   snapshots, picks>>

\* wm.run_command(text).unwrap(): the command is sent and an Err panics.
RunCommand(text, then) ==
    /\ commands' = Append(commands, text)
    /\ \E reply \in {"Ok", "Err"} :
          /\ outcomes' = Append(outcomes, reply)
          /\ pc' = IF reply = "Ok" THEN then ELSE "panicked"
    /\ UNCHANGED <<opt, focused_output_name, outputs, wm_state, destination,
                   snapshots, picks>>

\* Do::MoveFocusTo, lines 260-261.
FocusWorkspace ==
    /\ pc = "picked"
    /\ opt.command = "MoveFocusTo"
    /\ RunCommand(WorkspaceNumber(destination.val), "done")

\* Do::MoveContainerTo, lines 265-269.
MoveContainer ==
    /\ pc = "picked"
    /\ opt.command = "MoveContainerTo"
    /\ RunCommand(MoveContainerToWorkspaceNumber(destination.val), "moved")

\* Do::MoveContainerTo, lines 270-271.
FocusAfterMove ==
    /\ pc = "moved"
    /\ RunCommand(WorkspaceNumber(destination.val), "done")

Next ==
    \/ ParseArgs
    \/ Connect
    \/ GetTree
    \/ GetOutputs
    \/ GetWorkspaces
    \/ PickDestination
    \/ FocusWorkspace
    \/ MoveContainer
    \/ FocusAfterMove

Spec == Init /\ [][Next]_vars

\* ------------------------------------------- the output axis on its own

\* Longest visible_workspace_per_output a snapshot is drawn with.
MaxVisible == 3

\* cycle_through_outputs as a function of any WindowManagerState: the
\* fields it reads (current_workspace, visible_workspace_per_output) take
\* every value, whether or not one consistent compositor reply yields them.
OutputAxisInit ==
    /\ pc = "snapshot"
    /\ opt \in [command : {"MoveFocusTo", "MoveContainerTo"}, to : {"Output"},
                dir : {"Prev", "Next"}, walk_into_gaps : BOOLEAN,
                static_behaviour : BOOLEAN]
    /\ \E current \in Nums, empty \in BOOLEAN, n \in 0..MaxVisible :
          \E visible \in [1..n -> Nums] :
             wm_state = [current_workspace |-> current,
                         workspaces_on_focused_output |-> <<current>>,
                         workspaces_on_unfocused_outputs |-> <<>>,
                         max_workspace_on_focused_output |-> current,
                         is_max_workspace_empty |-> empty,
                         visible_workspace_per_output |-> visible]
    /\ focused_output_name = ""
    /\ outputs = <<>>
    /\ destination = None
    /\ commands = <<>>
    /\ outcomes = <<>>
    /\ snapshots = 1
    /\ picks = 0

OutputAxisSpec == OutputAxisInit /\ [][PickDestination]_vars

\* ------------------------------------------------------------ properties

Current == wm_state.current_workspace
Focused == Range(wm_state.workspaces_on_focused_output)
Reserved == Range(wm_state.workspaces_on_unfocused_outputs)
MaxFocused == wm_state.max_workspace_on_focused_output
Visible == wm_state.visible_workspace_per_output

\* The destination of a workspace-axis (output-axis) request was computed.
WorkspaceAxis == picks = 1 /\ opt.to = "Workspace"
OutputAxis == picks = 1 /\ opt.to = "Output"
Returned == destination.kind = "Some"

\* The snapshot invariants of the data model.
SnapshotInvariants ==
    /\ Focused # {}
    /\ Current \in Focused
    /\ Focused \cap Reserved = {}

\* The smallest integer above the focused output's maximum that no
\* unfocused output uses.
TrailingFree ==
    MinOf({n \in (MaxFocused + 1)..(MaxFocused + 1 + Cardinality(Reserved)) :
              n \notin Reserved})

\* The integers n with 1 <= n < current that no unfocused output uses.
LeadingFree == {n \in 1..(Current - 1) : n \notin Reserved}

\* C1 (as claimed): whenever the focused output's list is non-empty and
\* holds the current workspace, a workspace-axis request returns a number,
\* whatever the direction and the two flags.
C1_Totality ==
    (WorkspaceAxis /\ Focused # {} /\ Current \in Focused) => Returned

\* C2 (as claimed): a request along the outputs whose current workspace is
\* not in visible_workspace_per_output returns the current workspace.
C2_NoOpFallback ==
    (OutputAxis /\ ~Contains(Visible, Current)) => destination = Some(Current)

\* C3: under the snapshot invariants the destination of a workspace-axis
\* request is never a number found on an unfocused output.
C3_NoCollision ==
    (WorkspaceAxis /\ SnapshotInvariants /\ Returned)
        => destination.val \notin Reserved

\* C3's case: the trailing number was synthesized past a reserved one.
C3_Witness ==
    /\ WorkspaceAxis /\ SnapshotInvariants /\ Returned
    /\ (MaxFocused + 1) \in Reserved
    /\ destination.val > MaxFocused + 1

\* C4 (as claimed): with static_behaviour the workspace-axis destination is
\* a member of workspaces_on_focused_output, with or without walk_into_gaps.
C4_StaticNeverCreates ==
    (WorkspaceAxis /\ opt.static_behaviour /\ Returned)
        => destination.val \in Focused

\* C4 (amended): with static_behaviour and without walk_into_gaps the
\* destination is returned and is a member of workspaces_on_focused_output;
\* with walk_into_gaps a returned destination lies in 1..max and is not
\* reserved, and may be a gap number that exists on no output.
C4_StaticNeverCreatesAmended ==
    (WorkspaceAxis /\ opt.static_behaviour) =>
        IF opt.walk_into_gaps
        THEN Returned => /\ destination.val \in 1..MaxFocused
                         /\ destination.val \notin Reserved
        ELSE Returned /\ destination.val \in Focused

\* C4's case: static, no gap walking, Next from a non-empty maximum, where
\* the dynamic policy would create: the destination wraps to the minimum.
C4_Witness ==
    /\ WorkspaceAxis /\ opt.static_behaviour /\ ~opt.walk_into_gaps
    /\ opt.dir = "Next" /\ Current = MaxFocused
    /\ ~wm_state.is_max_workspace_empty
    /\ Cardinality(Focused) > 1
    /\ destination = Some(MinOf(Focused))

\* C5 (as claimed): without static_behaviour and with one workspace on the
\* focused output, Prev yields the largest unreserved n with
\* 1 <= n < current whenever there is one, and never a non-positive number.
C5_LeadingCreationOnPrev ==
    (/\ WorkspaceAxis /\ ~opt.static_behaviour /\ opt.dir = "Prev"
     /\ Cardinality(Focused) = 1 /\ Current \in Focused)
        => /\ LeadingFree # {} => destination = Some(MaxOf(LeadingFree))
           /\ Returned => destination.val >= 1

\* C5 (amended): in that situation Prev yields the largest unreserved n with
\* 1 <= n < current, whenever there is one, provided the single workspace is
\* empty or walk_into_gaps is set; when it is non-empty and walk_into_gaps
\* is off Prev yields the trailing new number; and a returned number is
\* non-positive only when current_workspace is negative.
C5_LeadingCreationOnPrevAmended ==
    (/\ WorkspaceAxis /\ ~opt.static_behaviour /\ opt.dir = "Prev"
     /\ Cardinality(Focused) = 1 /\ Current \in Focused)
        => /\ (/\ wm_state.is_max_workspace_empty \/ opt.walk_into_gaps
               /\ LeadingFree # {})
                  => destination = Some(MaxOf(LeadingFree))
           /\ (~wm_state.is_max_workspace_empty /\ ~opt.walk_into_gaps)
                  => destination = Some(TrailingFree)
           /\ Returned => (destination.val >= 1 \/ Current < 0)

\* C5's case: a single empty workspace, Prev, and the number just below it
\* is reserved, so the leading number is found further down.
C5_Witness ==
    /\ WorkspaceAxis /\ ~opt.static_behaviour /\ opt.dir = "Prev"
    /\ ~opt.walk_into_gaps
    /\ Cardinality(Focused) = 1 /\ Current \in Focused
    /\ wm_state.is_max_workspace_empty
    /\ (Current - 1) \in Reserved
    /\ Returned /\ destination.val >= 1 /\ destination.val < Current - 1

\* C6 (as claimed): without static_behaviour, Next from the maximum of the
\* focused output, when that workspace is non-empty or the only one, yields
\* the smallest unreserved integer above the maximum.
C6_TrailingCreationOnNext ==
    (/\ WorkspaceAxis /\ ~opt.static_behaviour /\ opt.dir = "Next"
     /\ Current = MaxFocused
     /\ (~wm_state.is_max_workspace_empty \/ Cardinality(Focused) = 1))
        => destination = Some(TrailingFree)

\* C7: without walk_into_gaps, Next from an empty maximum with more than one
\* workspace on the focused output yields the minimum of the focused output.
C7_WrapOnNext ==
    (/\ WorkspaceAxis /\ ~opt.walk_into_gaps /\ opt.dir = "Next"
     /\ Current = MaxFocused /\ wm_state.is_max_workspace_empty
     /\ Cardinality(Focused) > 1)
        => destination = Some(MinOf(Focused))

\* C7's case, under the dynamic policy.
C7_Witness ==
    /\ WorkspaceAxis /\ ~opt.walk_into_gaps /\ opt.dir = "Next"
    /\ ~opt.static_behaviour
    /\ Current = MaxFocused /\ wm_state.is_max_workspace_empty
    /\ Cardinality(Focused) = 3
    /\ destination = Some(MinOf(Focused))

\* C8: when current occurs at index i of visible_workspace_per_output (n
\* distinct entries), Next returns the entry at (i+1) mod n and Prev the
\* entry at (i-1) mod n, whatever the flags and the emptiness.
C8_OutputAxisCycling ==
    \A i \in 1..Len(Visible) :
        (/\ OutputAxis /\ Visible[i] = Current
         /\ \A j, k \in 1..Len(Visible) : Visible[j] = Visible[k] => j = k)
            => destination =
                   Some(Visible[IF opt.dir = "Next"
                                THEN (i % Len(Visible)) + 1
                                ELSE ((i - 2) % Len(Visible)) + 1])

\* C8's case: Prev from the first of three outputs reaches the last, with
\* both flags set.
C8_Witness ==
    /\ OutputAxis /\ opt.dir = "Prev"
    /\ opt.walk_into_gaps /\ ~opt.static_behaviour
    /\ Len(Visible) = 3
    /\ Cardinality(Range(Visible)) = 3
    /\ Visible[1] = Current
    /\ destination = Some(Visible[3])

\* C9: without walk_into_gaps, Next from a workspace that is not the maximum
\* yields the smallest focused-output number above current, and Prev from
\* one that is not the minimum the largest focused-output number below it.
C9_AdjacentStep ==
    (WorkspaceAxis /\ ~opt.walk_into_gaps /\ Current \in Focused) =>
        /\ (opt.dir = "Next" /\ Current # MaxOf(Focused))
              => destination = Some(MinOf({n \in Focused : n > Current}))
        /\ (opt.dir = "Prev" /\ Current # MinOf(Focused))
              => destination = Some(MaxOf({n \in Focused : n < Current}))

\* C9's case: Next from the smallest of three workspaces under the dynamic
\* policy, with a gap between it and the next one.
C9_Witness ==
    /\ WorkspaceAxis /\ ~opt.walk_into_gaps /\ ~opt.static_behaviour
    /\ opt.dir = "Next"
    /\ Cardinality(Focused) = 3 /\ Current = MinOf(Focused)
    /\ ~wm_state.is_max_workspace_empty
    /\ Returned /\ destination.val > Current + 1
    /\ destination.val \in Focused

\* The commands one invocation issues when nothing fails.
ExpectedCommands ==
    IF opt.command = "MoveFocusTo"
    THEN <<"workspace number " \o ToString(destination.val)>>
    ELSE <<"move container to workspace number " \o ToString(destination.val),
           "workspace number " \o ToString(destination.val)>>

====
